---- MODULE Spec2Model ----
(***************************************************************************)
(* A model of the akt actor runtime: one actor run by Actor::run on its    *)
(* hosting task, its public (bounded) and private (unbounded) mailboxes,   *)
(* the strong / weak / private addresses held by callers, and the          *)
(* request/response envelopes in flight.                                   *)
(*                                                                         *)
(* The actor is the counter actor of the crate documentation: the handler  *)
(* of an Increment request adds one to the actor's value and returns it;   *)
(* the handler of a Tick notification leaves the value alone.  Hooks and   *)
(* handlers may call Context::stop().                                      *)
(*                                                                         *)
(* Next to the actor the module has the task spawned by notify_interval    *)
(* (a holder of the private address sending in a loop) and a Pool of       *)
(* worker actors with its buffer of addresses and its PoolAddress guards.  *)
(***************************************************************************)
EXTENDS Integers, Sequences, FiniteSets, TLC

\* ------------------------------------------------------------ bounds ----
NClients == 2       \* callers that may hold a strong Address
MaxReq == 3         \* requests issued in one run
MaxPriv == 2        \* envelopes waiting in the private mailbox at once
LiveReq == 2        \* requests issued in one run of the liveness specification
PoolSize == 3       \* instances of the pool
MaxStops == 2       \* Context::stop calls counted within one hook or handler

\* mpsc::channel(16): the capacity of the public mailbox
PublicCapacity == 16

Clients == 1 .. NClients
\* the holder of a clone of Context::private_address (a child actor, a timer)
PrivateHolder == 0
Callers == 0 .. NClients
ReqIds == 1 .. MaxReq
Instances == 1 .. PoolSize
\* the places a PoolAddress taken from the pool can be kept in
Holders == 1 .. PoolSize

\* ------------------------------------------------------------- state ----
VARIABLES
    pc,          \* position of the hosting task in Actor::run
    state,       \* context.state : ActorState
    counter,     \* the actor's own state (the counter / balance)
    cur,         \* the envelope being handled
    addr_q,      \* public mailbox (addr_tx / addr_rx)
    private_q,   \* private mailbox (private_addr_tx / private_addr_rx)
    tx_count,    \* number of strong senders of the public mailbox
    has,         \* has[c] : caller c holds a strong Address
    weak,        \* a WeakAddress is held outside the Context
    cpc,         \* position of each caller inside send()
    creq,        \* the request a caller is sending
    nextId,      \* next request id
    slot,        \* oneshot channel of each request: sender side
    rx_closed,   \* oneshot channel of each request: receiver dropped
    outcome,     \* what send() returned for each request
    \* history variables
    via,         \* which mailbox a request was enqueued on
    log,         \* requests in the order they were dequeued
    writes,      \* number of writes to each response slot
    seq,         \* seq[r] : requests 1 .. r were sent one after another, each
                 \* issued after the one before it had returned Ok
    exit_cause,  \* how the loop was left
    n_stopped,   \* number of on_stopped invocations
    upgrade_none, \* some WeakAddress::upgrade returned None
    notified,    \* what the last UnboundedAddress::notify returned
    stops,       \* Context::stop calls made so far by the running hook or handler
    \* a Pool of worker actors
    actors_q,    \* the pool's buffer (actors_tx / actors_rx): addresses by instance
    guard,       \* guard[h] : the instance whose PoolAddress holder h has, or 0
    pool_alive,  \* the Pool (and with it actors_rx) has not been dropped
    taking,      \* a take() call is suspended on the empty buffer
    last_release \* the instance whose PoolAddress was dropped last, or 0

vars == << pc, state, counter, cur, addr_q, private_q, tx_count, has, weak,
           cpc, creq, nextId, slot, rx_closed, outcome, via, log, writes,
           seq, exit_cause, n_stopped, upgrade_none, notified, stops,
           actors_q, guard, pool_alive, taking, last_release >>

actor_vars == << pc, state, counter, cur, exit_cause, n_stopped >>
queue_vars == << addr_q, private_q, via, log >>
addr_vars == << tx_count, has, weak, upgrade_none >>
call_vars == << cpc, creq, nextId, outcome, seq >>
slot_vars == << slot, rx_closed, writes >>
pool_vars == << actors_q, guard, pool_alive, taking, last_release >>
aside_vars == << notified, pool_vars >>

\* ------------------------------------------------------- ActorState ----
ActorState == { "Starting", "Started", "Stopping", "Stopped" }

Rank(s) ==
    CASE s = "Starting" -> 0
      [] s = "Started" -> 1
      [] s = "Stopping" -> 2
      [] s = "Stopped" -> 3

\* faulty variant of ContextStop: a second call takes the request back
ContextStop_Toggle(s) == IF s = "Stopping" THEN "Started" ELSE "Stopping"

\* Context::stop
ContextStop(s) == "Stopping"

\* ---------------------------------------------------------- envelopes ----
\* MessageWithSender<Increment>: a request carrying its response slot
Request(r) == [ kind |-> "req", id |-> r ]
\* a read-only request (its handler returns the value and changes nothing)
\* whose caller dropped the send future after the enqueue: its oneshot
\* receiver is gone
Lapsed == [ kind |-> "lapsed", id |-> 0 ]
\* a bare message used as an envelope: a notification
Tick == [ kind |-> "note", id |-> 0 ]
NoEnvelope == [ kind |-> "none", id |-> 0 ]

\* oneshot::channel(): the sender side of a response slot
SlotUnused == [ st |-> "unused", val |-> 0 ]
SlotOpen == [ st |-> "open", val |-> 0 ]
SlotFilled(v) == [ st |-> "filled", val |-> v ]
SlotDropped == [ st |-> "dropped", val |-> 0 ]

\* Result<M::Result, ActorSendError>
Pending == [ st |-> "pending", val |-> 0 ]
Ok(v) == [ st |-> "Ok", val |-> v ]
FailedToDeliver == [ st |-> "FailedToDeliver", val |-> 0 ]
FailedToGetResponse == [ st |-> "FailedToGetResponse", val |-> 0 ]
\* the send future was dropped by its caller before it returned
Cancelled == [ st |-> "cancelled", val |-> 0 ]

\* ------------------------------------------------------ mailbox rules ----
\* The receivers, the Context and the actor live until the hosting task ends.
ReceiverAlive == pc # "done"

\* faulty variant of HasPermit: the public mailbox takes any number of envelopes
HasPermit_Unbounded(q) == TRUE

\* mpsc::Sender::send can enqueue: the semaphore has a permit
HasPermit(q) == Len(q) < PublicCapacity

\* faulty variant of Enqueue: the envelope is put in front of the waiting ones
Enqueue_Front(q, env) == << env >> \o q

\* tx.send(envelope): the envelope joins the mailbox behind the waiting ones
Enqueue(q, env) == Append(q, env)

\* faulty variants of RecvClosed: the Context holds a strong Address of its
\* own; the closure is reported only once the private mailbox is drained too;
\* the closure is reported as soon as the last strong sender is gone
RecvClosed_ContextStrong(n, q) == n + 1 = 0 /\ q = << >>
RecvClosed_NeedsPrivateEmpty(n, q) == n = 0 /\ q = << >> /\ private_q = << >>
RecvClosed_IgnoresQueue(n, q) == n = 0

\* addr_rx.recv() returns None: every strong sender is gone and the queue is drained
RecvClosed(n, q) == n = 0 /\ q = << >>

\* faulty variant of UpgradeOk: the weak address keeps a sender it can always hand out
UpgradeOk_Always(n) == TRUE

\* WeakSender::upgrade succeeds while the strong count is not zero
UpgradeOk(n) == n > 0

\* the response slots of the request envelopes of a queue
SlotsOf(q) == { q[i].id : i \in { j \in 1 .. Len(q) : q[j].kind = "req" } }

\* faulty variant of DropSlots: the queued envelopes are leaked, not dropped
DropSlots_Leak(s, ids) == s

\* dropping envelopes drops the oneshot senders they hold
DropSlots(s, ids) == [ r \in ReqIds |-> IF r \in ids THEN SlotDropped ELSE s[r] ]

\* ------------------------------------------------------------- Init ----
\* Pool::with_spawner: the instances are spawned and their addresses buffered
PoolInit ==
    /\ actors_q = [ i \in 1 .. PoolSize |-> i ]
    /\ guard = [ h \in Holders |-> 0 ]
    /\ pool_alive = TRUE
    /\ taking = FALSE
    /\ last_release = 0

Init ==
    /\ pc = "on_start"
    /\ state = "Starting"
    /\ counter = 0
    /\ cur = NoEnvelope
    /\ addr_q = << >>
    /\ private_q = << >>
    /\ tx_count = 1
    /\ has = [ c \in Clients |-> c = 1 ]
    /\ weak = FALSE
    /\ cpc = [ c \in Callers |-> "idle" ]
    /\ creq = [ c \in Callers |-> 0 ]
    /\ nextId = 1
    /\ slot = [ r \in ReqIds |-> SlotUnused ]
    /\ rx_closed = [ r \in ReqIds |-> FALSE ]
    /\ outcome = [ r \in ReqIds |-> Pending ]
    /\ via = [ r \in ReqIds |-> "none" ]
    /\ log = << >>
    /\ writes = [ r \in ReqIds |-> 0 ]
    /\ seq = [ r \in ReqIds |-> FALSE ]
    /\ exit_cause = "none"
    /\ n_stopped = 0
    /\ upgrade_none = FALSE
    /\ notified = "none"
    /\ stops = 0
    /\ PoolInit

\* ------------------------------------------------- the hosting task ----
\* actor.on_start(&mut context).await; the hook may call context.stop()
on_start(stop) ==
    /\ pc = "on_start"
    /\ state' = IF stop THEN ContextStop(state) ELSE state
    /\ pc' = "set_started"
    /\ UNCHANGED << counter, cur, exit_cause, n_stopped >>
    /\ UNCHANGED << queue_vars, addr_vars, call_vars, slot_vars >>
    /\ UNCHANGED aside_vars
    /\ stops' = 0

\* faulty variant of LoopHead: the loop goes straight to select!
LoopHead_NoCheck(s) == "select"

\* faulty variant of LoopHead: on_stopping is asked on every turn of the loop
LoopHead_AsksAlways(s) == "loop"

\* the loop head: with state == Stopping the on_stopping hook is asked next,
\* otherwise the task goes on to select!
LoopHead(s) == IF s = "Stopping" THEN "loop" ELSE "select"

\* context.state = ActorState::Started, and the loop is entered
set_started ==
    /\ pc = "set_started"
    /\ state' = "Started"
    /\ pc' = LoopHead(state')
    /\ UNCHANGED << counter, cur, exit_cause, n_stopped >>
    /\ UNCHANGED << queue_vars, addr_vars, call_vars, slot_vars >>
    /\ UNCHANGED aside_vars
    /\ UNCHANGED stops

\* faulty variant of LoopExit: on_stopped is run only after a consented stop
LoopExit_HookOnConsentOnly(cause) ==
    IF cause = "consent" THEN "on_stopped" ELSE "set_stopped"

\* break: whichever way the loop is left, actor.on_stopped comes next
LoopExit(cause) == "on_stopped"

\* actor.on_stopping(&mut context).await == true => break
on_stopping(ret) ==
    /\ pc = "loop"
    /\ IF ret
         THEN /\ pc' = LoopExit("consent")
              /\ exit_cause' = "consent"
         ELSE /\ pc' = "select"
              /\ exit_cause' = exit_cause
    /\ UNCHANGED << state, counter, cur, n_stopped >>
    /\ UNCHANGED << queue_vars, addr_vars, call_vars, slot_vars >>
    /\ UNCHANGED aside_vars
    /\ stops' = 0

\* faulty variant of TxClosed: tx.closed() is ready whether or not the caller waits
TxClosed_Always(env) == TRUE

\* the request's caller dropped its oneshot receiver: self.tx.closed() is ready
TxClosed(env) ==
    \/ env.kind = "lapsed"
    \/ env.kind = "req" /\ rx_closed[env.id]

\* faulty variant of HandlerBegin: the handler works on a copy of the actor
HandlerBegin_NoUpdate(n, env) == n

\* the first poll of Handler::handle: the handler of an Increment request
\* applies its state change and suspends
HandlerBegin(n, env) == IF env.kind = "req" THEN n + 1 ELSE n

\* an envelope leaves a mailbox and Envelope::handle is polled: either the
\* tx.closed() branch is taken at once, or the handler starts
Dispatch(env, abandon) ==
    /\ log' = IF env.kind = "req" THEN Append(log, env.id) ELSE log
    /\ IF abandon
         THEN /\ TxClosed(env)
              /\ slot' = IF env.kind = "req"
                           THEN [ slot EXCEPT ![env.id] = SlotDropped ]
                           ELSE slot
              /\ cur' = NoEnvelope
              /\ counter' = counter
              /\ pc' = LoopHead(state)
         ELSE /\ slot' = slot
              /\ cur' = env
              /\ counter' = HandlerBegin(counter, env)
              /\ pc' = "handler"
    /\ UNCHANGED << state, exit_cause, n_stopped >>
    /\ UNCHANGED << via, rx_closed, writes >>
    /\ UNCHANGED << addr_vars, call_vars >>
    /\ UNCHANGED aside_vars
    /\ UNCHANGED stops

\* select! branch: Some(message) = private_addr_rx.recv()
recv_private(abandon) ==
    /\ pc = "select"
    /\ private_q # << >>
    /\ private_q' = Tail(private_q)
    /\ addr_q' = addr_q
    /\ Dispatch(Head(private_q), abandon)

\* select! branch: addr_rx.recv() returned Some(message)
recv_public(abandon) ==
    /\ pc = "select"
    /\ addr_q # << >>
    /\ addr_q' = Tail(addr_q)
    /\ private_q' = private_q
    /\ Dispatch(Head(addr_q), abandon)

\* select! branch: addr_rx.recv() returned None => break
recv_none ==
    /\ pc = "select"
    /\ RecvClosed(tx_count, addr_q)
    /\ pc' = LoopExit("closed")
    /\ exit_cause' = "closed"
    /\ UNCHANGED << state, counter, cur, n_stopped >>
    /\ UNCHANGED << queue_vars, addr_vars, call_vars, slot_vars >>
    /\ UNCHANGED aside_vars
    /\ UNCHANGED stops

\* faulty variant of SlotSend: the value is stored also when the receiver is gone
SlotSend_IgnoresClosed(closed, v) == SlotFilled(v)

\* oneshot::Sender::send: the value is stored unless the receiver is gone
SlotSend(closed, v) == IF closed THEN SlotDropped ELSE SlotFilled(v)

\* Handler::handle returns; a request's result goes to its response slot
handler_finish(stop) ==
    /\ pc = "handler"
    /\ IF cur.kind = "req"
         THEN /\ slot' = [ slot EXCEPT ![cur.id] = SlotSend(rx_closed[cur.id], counter) ]
              /\ writes' = [ writes EXCEPT ![cur.id] = IF rx_closed[cur.id] THEN @ ELSE @ + 1 ]
         ELSE UNCHANGED << slot, writes >>
    /\ state' = IF stop THEN ContextStop(state) ELSE state
    /\ cur' = NoEnvelope
    /\ pc' = LoopHead(state')
    /\ UNCHANGED << counter, exit_cause, n_stopped, rx_closed >>
    /\ UNCHANGED << queue_vars, addr_vars, call_vars >>
    /\ UNCHANGED aside_vars
    /\ stops' = 0

\* select! in MessageWithSender::handle takes the tx.closed() branch while
\* the handler is suspended: the handling computation is dropped where it stands
handle_abandon ==
    /\ pc = "handler"
    /\ TxClosed(cur)
    /\ slot' = IF cur.kind = "req"
                 THEN [ slot EXCEPT ![cur.id] = SlotDropped ]
                 ELSE slot
    /\ cur' = NoEnvelope
    /\ pc' = LoopHead(state)
    /\ UNCHANGED << state, counter, exit_cause, n_stopped >>
    /\ UNCHANGED << rx_closed, writes >>
    /\ UNCHANGED << queue_vars, addr_vars, call_vars >>
    /\ UNCHANGED aside_vars
    /\ stops' = 0

\* context.stop() called by the running hook or handler before it returns
context_stop ==
    /\ pc \in { "on_start", "loop", "handler", "on_stopped" }
    /\ stops < MaxStops
    /\ state' = ContextStop(state)
    /\ stops' = stops + 1
    /\ UNCHANGED << pc, counter, cur, exit_cause, n_stopped >>
    /\ UNCHANGED << queue_vars, addr_vars, call_vars, slot_vars, aside_vars >>

\* actor.on_stopped(&mut context).await; the hook may call context.stop()
on_stopped(stop) ==
    /\ pc = "on_stopped"
    /\ state' = IF stop THEN ContextStop(state) ELSE state
    /\ n_stopped' = n_stopped + 1
    /\ pc' = "set_stopped"
    /\ UNCHANGED << counter, cur, exit_cause >>
    /\ UNCHANGED << queue_vars, addr_vars, call_vars, slot_vars >>
    /\ UNCHANGED aside_vars
    /\ stops' = 0

\* context.state = ActorState::Stopped; the task ends: the receivers are
\* dropped and with them every envelope still queued
set_stopped ==
    /\ pc = "set_stopped"
    /\ state' = "Stopped"
    /\ pc' = "done"
    /\ slot' = DropSlots(slot, SlotsOf(addr_q) \cup SlotsOf(private_q))
    /\ addr_q' = << >>
    /\ private_q' = << >>
    /\ UNCHANGED << counter, cur, exit_cause, n_stopped >>
    /\ UNCHANGED << via, log, rx_closed, writes >>
    /\ UNCHANGED << addr_vars, call_vars >>
    /\ UNCHANGED aside_vars
    /\ UNCHANGED stops

\* ------------------------------------------------------ Address::send ----
\* the request is created: oneshot::channel() and MessageWithSender
NewRequest(c, r) ==
    /\ nextId <= MaxReq
    /\ r = nextId
    /\ nextId' = nextId + 1
    /\ creq' = [ creq EXCEPT ![c] = r ]
    /\ seq' = [ seq EXCEPT ![r] = (r = 1) \/ (seq[r - 1] /\ outcome[r - 1].st = "Ok") ]

\* self.tx.send(Box::new(packed)).await on the bounded sender
send(c) ==
    /\ has[c]
    /\ cpc[c] = "idle"
    /\ \E r \in ReqIds :
         /\ NewRequest(c, r)
         /\ IF ~ ReceiverAlive
              THEN /\ outcome' = [ outcome EXCEPT ![r] = FailedToDeliver ]
                   /\ slot' = [ slot EXCEPT ![r] = SlotDropped ]
                   /\ UNCHANGED << cpc, addr_q, via >>
              ELSE IF HasPermit(addr_q)
                THEN /\ addr_q' = Enqueue(addr_q, Request(r))
                     /\ via' = [ via EXCEPT ![r] = "public" ]
                     /\ slot' = [ slot EXCEPT ![r] = SlotOpen ]
                     /\ cpc' = [ cpc EXCEPT ![c] = "await" ]
                     /\ outcome' = outcome
                ELSE /\ cpc' = [ cpc EXCEPT ![c] = "blocked" ]
                     /\ slot' = [ slot EXCEPT ![r] = SlotOpen ]
                     /\ UNCHANGED << outcome, addr_q, via >>
    /\ UNCHANGED << private_q, log, rx_closed, writes >>
    /\ UNCHANGED << actor_vars, addr_vars >>
    /\ UNCHANGED aside_vars
    /\ UNCHANGED stops

\* a caller suspended on the full mailbox gets its permit
send_permit(c) ==
    /\ cpc[c] = "blocked"
    /\ ReceiverAlive
    /\ HasPermit(addr_q)
    /\ addr_q' = Enqueue(addr_q, Request(creq[c]))
    /\ via' = [ via EXCEPT ![creq[c]] = "public" ]
    /\ cpc' = [ cpc EXCEPT ![c] = "await" ]
    /\ UNCHANGED << private_q, log, creq, nextId, outcome, seq >>
    /\ UNCHANGED << actor_vars, addr_vars, slot_vars >>
    /\ UNCHANGED aside_vars
    /\ UNCHANGED stops

\* a caller suspended on the full mailbox sees the receiver go
send_closed(c) ==
    /\ cpc[c] = "blocked"
    /\ ~ ReceiverAlive
    /\ outcome' = [ outcome EXCEPT ![creq[c]] = FailedToDeliver ]
    /\ slot' = [ slot EXCEPT ![creq[c]] = SlotDropped ]
    /\ cpc' = [ cpc EXCEPT ![c] = "idle" ]
    /\ creq' = [ creq EXCEPT ![c] = 0 ]
    /\ UNCHANGED << nextId, seq, rx_closed, writes >>
    /\ UNCHANGED << actor_vars, queue_vars, addr_vars >>
    /\ UNCHANGED aside_vars
    /\ UNCHANGED stops

\* faulty variant of RxAwait: a dropped slot is reported as a delivery failure
RxAwait_OneError(s) == IF s.st = "filled" THEN Ok(s.val) ELSE FailedToDeliver

\* rx.await.map_err(|_| FailedToGetResponse)
RxAwait(s) == IF s.st = "filled" THEN Ok(s.val) ELSE FailedToGetResponse

send_return(c) ==
    /\ cpc[c] = "await"
    /\ slot[creq[c]].st \in { "filled", "dropped" }
    /\ outcome' = [ outcome EXCEPT ![creq[c]] = RxAwait(slot[creq[c]]) ]
    /\ cpc' = [ cpc EXCEPT ![c] = "idle" ]
    /\ creq' = [ creq EXCEPT ![c] = 0 ]
    /\ UNCHANGED << nextId, seq >>
    /\ UNCHANGED << actor_vars, queue_vars, addr_vars, slot_vars >>
    /\ UNCHANGED aside_vars
    /\ UNCHANGED stops

\* the caller drops the future of a pending send
cancel(c) ==
    /\ cpc[c] \in { "blocked", "await" }
    /\ outcome' = [ outcome EXCEPT ![creq[c]] = Cancelled ]
    /\ IF cpc[c] = "await"
         THEN /\ rx_closed' = [ rx_closed EXCEPT ![creq[c]] = TRUE ]
              /\ slot' = slot
         ELSE /\ rx_closed' = rx_closed
              /\ slot' = [ slot EXCEPT ![creq[c]] = SlotDropped ]
    /\ cpc' = [ cpc EXCEPT ![c] = "idle" ]
    /\ creq' = [ creq EXCEPT ![c] = 0 ]
    /\ UNCHANGED << nextId, seq, writes >>
    /\ UNCHANGED << actor_vars, queue_vars, addr_vars >>
    /\ UNCHANGED aside_vars
    /\ UNCHANGED stops

\* ---------------------------------------------- UnboundedAddress ----
\* UnboundedAddress::send: the enqueue never waits
private_send ==
    /\ pc # "on_start"
    /\ cpc[PrivateHolder] = "idle"
    /\ \E r \in ReqIds :
         /\ NewRequest(PrivateHolder, r)
         /\ IF ~ ReceiverAlive
              THEN /\ outcome' = [ outcome EXCEPT ![r] = FailedToDeliver ]
                   /\ slot' = [ slot EXCEPT ![r] = SlotDropped ]
                   /\ UNCHANGED << cpc, private_q, via >>
              ELSE /\ Len(private_q) < MaxPriv
                   /\ private_q' = Enqueue(private_q, Request(r))
                   /\ via' = [ via EXCEPT ![r] = "private" ]
                   /\ slot' = [ slot EXCEPT ![r] = SlotOpen ]
                   /\ cpc' = [ cpc EXCEPT ![PrivateHolder] = "await" ]
                   /\ outcome' = outcome
    /\ UNCHANGED << addr_q, log, rx_closed, writes >>
    /\ UNCHANGED << actor_vars, addr_vars >>
    /\ UNCHANGED aside_vars
    /\ UNCHANGED stops

\* faulty variant of NotifyResult: notify reports success whatever happened
NotifyResult_AlwaysOk(alive) == "Ok"

\* self.tx.send(..).map_err(|_| FailedToDeliver)
NotifyResult(alive) == IF alive THEN "Ok" ELSE "FailedToDeliver"

\* UnboundedAddress::notify
notify ==
    /\ pc # "on_start"
    /\ IF ReceiverAlive
         THEN /\ Len(private_q) < MaxPriv
              /\ private_q' = Enqueue(private_q, Tick)
         ELSE private_q' = private_q
    /\ notified' = NotifyResult(ReceiverAlive)
    /\ UNCHANGED << addr_q, via, log >>
    /\ UNCHANGED << actor_vars, addr_vars, call_vars, slot_vars, pool_vars >>
    /\ UNCHANGED stops

\* ------------------------------------------- strong and weak addresses ----
\* Address::clone
clone(c, d) ==
    /\ has[c]
    /\ ~ has[d]
    /\ has' = [ has EXCEPT ![d] = TRUE ]
    /\ tx_count' = tx_count + 1
    /\ UNCHANGED << weak, upgrade_none >>
    /\ UNCHANGED << actor_vars, queue_vars, call_vars, slot_vars >>
    /\ UNCHANGED aside_vars
    /\ UNCHANGED stops

\* drop(address)
drop(c) ==
    /\ has[c]
    /\ cpc[c] = "idle"
    /\ has' = [ has EXCEPT ![c] = FALSE ]
    /\ tx_count' = tx_count - 1
    /\ UNCHANGED << weak, upgrade_none >>
    /\ UNCHANGED << actor_vars, queue_vars, call_vars, slot_vars >>
    /\ UNCHANGED aside_vars
    /\ UNCHANGED stops

\* Address::downgrade
downgrade(c) ==
    /\ has[c]
    /\ ~ weak
    /\ weak' = TRUE
    /\ UNCHANGED << tx_count, has, upgrade_none >>
    /\ UNCHANGED << actor_vars, queue_vars, call_vars, slot_vars >>
    /\ UNCHANGED aside_vars
    /\ UNCHANGED stops

\* WeakAddress::upgrade
upgrade(c) ==
    /\ weak
    /\ ~ has[c]
    /\ IF UpgradeOk(tx_count)
         THEN /\ has' = [ has EXCEPT ![c] = TRUE ]
              /\ tx_count' = tx_count + 1
              /\ upgrade_none' = upgrade_none
         ELSE /\ upgrade_none' = TRUE
              /\ UNCHANGED << has, tx_count >>
    /\ weak' = weak
    /\ UNCHANGED << actor_vars, queue_vars, call_vars, slot_vars >>
    /\ UNCHANGED aside_vars
    /\ UNCHANGED stops

\* faulty variant of is_closed: the mailbox counts as closed once no strong
\* Address is left
is_closed_NoSenders == tx_count = 0

\* Address::is_closed: self.tx.is_closed(), true once the receiver is dropped
is_closed == ~ ReceiverAlive

\* Address::is_connected: !self.tx.is_closed()
is_connected == ~ is_closed

\* ------------------------------------------------------------- Next ----
ActorStep ==
    \/ \E stop \in BOOLEAN : on_start(stop)
    \/ set_started
    \/ \E ret \in BOOLEAN : on_stopping(ret)
    \/ \E abandon \in BOOLEAN : recv_private(abandon)
    \/ \E abandon \in BOOLEAN : recv_public(abandon)
    \/ recv_none
    \/ \E stop \in BOOLEAN : handler_finish(stop)
    \/ handle_abandon
    \/ \E stop \in BOOLEAN : on_stopped(stop)
    \/ set_stopped
    \/ context_stop

SendStep ==
    \/ \E c \in Clients : send(c)
    \/ \E c \in Callers : send_return(c)
    \/ \E c \in Callers : cancel(c)
    \/ private_send

AddressStep ==
    \/ \E c, d \in Clients : clone(c, d)
    \/ \E c \in Clients : drop(c)
    \/ \E c \in Clients : downgrade(c)
    \/ \E c \in Clients : upgrade(c)

Next ==
    \/ ActorStep
    \/ SendStep
    \/ notify
    \/ AddressStep

Spec == Init /\ [][Next]_vars

\* ------------------------------------------------ the full mailbox ----
\* The public mailbox holds PublicCapacity envelopes before on_start has
\* returned: the first caller issued that many sends and dropped each future
\* after its enqueue (a timeout around send), so every envelope is Lapsed.
\* The callers then send, wait, give up and drop the address as in Spec.
InitFull ==
    /\ pc = "on_start"
    /\ state = "Starting"
    /\ counter = 0
    /\ cur = NoEnvelope
    /\ addr_q = [ i \in 1 .. PublicCapacity |-> Lapsed ]
    /\ private_q = << >>
    /\ tx_count = 1
    /\ has = [ c \in Clients |-> c = 1 ]
    /\ weak = FALSE
    /\ cpc = [ c \in Callers |-> "idle" ]
    /\ creq = [ c \in Callers |-> 0 ]
    /\ nextId = 1
    /\ slot = [ r \in ReqIds |-> SlotUnused ]
    /\ rx_closed = [ r \in ReqIds |-> FALSE ]
    /\ outcome = [ r \in ReqIds |-> Pending ]
    /\ via = [ r \in ReqIds |-> "none" ]
    /\ log = << >>
    /\ writes = [ r \in ReqIds |-> 0 ]
    /\ seq = [ r \in ReqIds |-> FALSE ]
    /\ exit_cause = "none"
    /\ n_stopped = 0
    /\ upgrade_none = FALSE
    /\ notified = "none"
    /\ stops = 0
    /\ PoolInit

BlockedStep ==
    \/ \E c \in Clients : send_permit(c)
    \/ \E c \in Clients : send_closed(c)

NextFull ==
    \/ ActorStep
    \/ SendStep
    \/ BlockedStep
    \/ \E c \in Clients : drop(c)

SpecFull == InitFull /\ [][NextFull]_vars

\* ---------------------------------------------------------------- Pool ----
\* faulty variants of PoolSend: the address is put back twice; the address
\* joins the head of the buffer
PoolSend_Twice(alive, q, a) == IF alive THEN Enqueue(Enqueue(q, a), a) ELSE q
PoolSend_Front(alive, q, a) == IF alive THEN << a >> \o q ELSE q

\* let _ = self.actors_tx.send(self.inner.clone()): the clone joins the buffer;
\* with actors_rx gone the send fails, the error is ignored and the clone dropped
PoolSend(alive, q, a) == IF alive THEN Enqueue(q, a) ELSE q

\* self.actors_rx.recv() hands out the address at the head of the buffer
TakeHead(h) ==
    /\ actors_q # << >>
    /\ guard[h] = 0
    /\ guard' = [ guard EXCEPT ![h] = Head(actors_q) ]
    /\ actors_q' = Tail(actors_q)

\* Pool::take with an address in the buffer
take(h) ==
    /\ pool_alive
    /\ ~ taking
    /\ TakeHead(h)
    /\ UNCHANGED << pool_alive, taking, last_release, notified >>
    /\ UNCHANGED << actor_vars, queue_vars, addr_vars, call_vars, slot_vars >>
    /\ UNCHANGED stops

\* Pool::take with the buffer empty: recv().await suspends
take_wait ==
    /\ pool_alive
    /\ ~ taking
    /\ actors_q = << >>
    /\ taking' = TRUE
    /\ UNCHANGED << actors_q, guard, pool_alive, last_release, notified >>
    /\ UNCHANGED << actor_vars, queue_vars, addr_vars, call_vars, slot_vars >>
    /\ UNCHANGED stops

\* the suspended take() is woken by a released address
take_resume(h) ==
    /\ taking
    /\ TakeHead(h)
    /\ taking' = FALSE
    /\ UNCHANGED << pool_alive, last_release, notified >>
    /\ UNCHANGED << actor_vars, queue_vars, addr_vars, call_vars, slot_vars >>
    /\ UNCHANGED stops

\* the future of the suspended take() is dropped
take_cancel ==
    /\ taking
    /\ taking' = FALSE
    /\ UNCHANGED << actors_q, guard, pool_alive, last_release, notified >>
    /\ UNCHANGED << actor_vars, queue_vars, addr_vars, call_vars, slot_vars >>
    /\ UNCHANGED stops

\* impl Drop for PoolAddress
release(h) ==
    /\ guard[h] # 0
    /\ actors_q' = PoolSend(pool_alive, actors_q, guard[h])
    /\ guard' = [ guard EXCEPT ![h] = 0 ]
    /\ last_release' = guard[h]
    /\ UNCHANGED << pool_alive, taking, notified >>
    /\ UNCHANGED << actor_vars, queue_vars, addr_vars, call_vars, slot_vars >>
    /\ UNCHANGED stops

\* the Pool is dropped (no take() borrows it): actors_rx goes, and with it
\* the buffered addresses; PoolAddress values already handed out live on
pool_drop ==
    /\ pool_alive
    /\ ~ taking
    /\ pool_alive' = FALSE
    /\ actors_q' = << >>
    /\ UNCHANGED << guard, taking, last_release, notified >>
    /\ UNCHANGED << actor_vars, queue_vars, addr_vars, call_vars, slot_vars >>
    /\ UNCHANGED stops

PoolNext ==
    \/ \E h \in Holders : take(h)
    \/ take_wait
    \/ \E h \in Holders : take_resume(h)
    \/ take_cancel
    \/ \E h \in Holders : release(h)
    \/ pool_drop

PoolSpec == Init /\ [][PoolNext]_vars

\* ----------------------------------------------------------- fairness ----
\* The hosting task is a spawned tokio task: it is polled whenever it can make
\* progress, and hooks and handlers return.  select! without `biased` starts
\* at a branch drawn at random on every poll, so a branch that is ready again
\* and again is eventually taken.  Callers that can return do return.
Fairness ==
    /\ WF_vars(\E stop \in BOOLEAN : on_start(stop))
    /\ WF_vars(set_started)
    /\ WF_vars(\E ret \in BOOLEAN : on_stopping(ret))
    /\ WF_vars((\E stop \in BOOLEAN : handler_finish(stop)) \/ handle_abandon)
    /\ WF_vars(\E stop \in BOOLEAN : on_stopped(stop))
    /\ WF_vars(set_stopped)
    /\ SF_vars(recv_none)
    /\ SF_vars(\E abandon \in BOOLEAN : recv_private(abandon))
    /\ SF_vars(\E abandon \in BOOLEAN : recv_public(abandon))
    /\ \A c \in Callers : WF_vars(send_return(c))

\* The liveness claims are checked on the runs of one address handed from
\* caller to caller by downgrade and upgrade (no Address::clone), with at
\* most LiveReq requests.
NextLive ==
    \/ ActorStep
    \/ SendStep /\ nextId' <= LiveReq + 1
    \/ notify
    \/ \E c \in Clients : drop(c)
    \/ \E c \in Clients : downgrade(c)
    \/ \E c \in Clients : upgrade(c)

FairSpec == Init /\ [][NextLive]_vars /\ Fairness

\* a caller suspended on the full mailbox is woken when the receiver goes
FairSpecFull ==
    /\ InitFull
    /\ [][NextFull]_vars
    /\ Fairness
    /\ \A c \in Clients : WF_vars(send_closed(c))

\* ------------------------------------------------- notify_interval ----
\* faulty variant of AfterSend: the loop goes on whatever send returned
AfterSend_KeepsGoing(o) == "idle"

\* if let Err(_) = address.send(message).await { break }: the position of the
\* repeating task after send returned o
AfterSend(o) == IF o.st = "Ok" THEN "idle" ELSE "ended"

\* The task spawned by notify_interval is the PrivateHolder here: it holds a
\* clone of the private address.  One turn of its loop up to the await inside
\* send: the tick, create_message() and the enqueue on the private mailbox.
\* With the receiver gone send returns FailedToDeliver at once.
interval_send ==
    /\ pc # "on_start"
    /\ cpc[PrivateHolder] = "idle"
    /\ IF ~ ReceiverAlive
         THEN /\ cpc' = [ cpc EXCEPT ![PrivateHolder] = AfterSend(FailedToDeliver) ]
              /\ UNCHANGED << creq, nextId, outcome, seq, private_q, via, slot >>
         ELSE /\ \E r \in ReqIds : NewRequest(PrivateHolder, r)
              /\ Len(private_q) < MaxPriv
              /\ private_q' = Enqueue(private_q, Request(nextId))
              /\ via' = [ via EXCEPT ![nextId] = "private" ]
              /\ slot' = [ slot EXCEPT ![nextId] = SlotOpen ]
              /\ cpc' = [ cpc EXCEPT ![PrivateHolder] = "await" ]
              /\ outcome' = outcome
    /\ UNCHANGED << addr_q, log, rx_closed, writes >>
    /\ UNCHANGED << actor_vars, addr_vars, aside_vars >>
    /\ UNCHANGED stops

\* send returns to the repeating task
interval_return ==
    /\ cpc[PrivateHolder] = "await"
    /\ slot[creq[PrivateHolder]].st \in { "filled", "dropped" }
    /\ outcome' = [ outcome EXCEPT ![creq[PrivateHolder]] = RxAwait(slot[creq[PrivateHolder]]) ]
    /\ cpc' = [ cpc EXCEPT ![PrivateHolder] = AfterSend(RxAwait(slot[creq[PrivateHolder]])) ]
    /\ creq' = [ creq EXCEPT ![PrivateHolder] = 0 ]
    /\ UNCHANGED << nextId, seq >>
    /\ UNCHANGED << actor_vars, queue_vars, addr_vars, slot_vars, aside_vars >>
    /\ UNCHANGED stops

\* the callers of the public address next to the repeating task
ClientStep ==
    \/ \E c \in Clients : send_return(c)
    \/ \E c \in Clients : cancel(c)
    \/ \E c \in Clients : drop(c)

NextInterval ==
    \/ ActorStep
    \/ interval_send
    \/ \E c \in Clients : send(c)
    \/ interval_return
    \/ ClientStep

\* the interval keeps ticking, and a send that can return does
IntervalSpec ==
    /\ Init
    /\ [][NextInterval]_vars
    /\ Fairness
    /\ WF_vars(interval_send)
    /\ WF_vars(interval_return)

\* ------------------------------------------------------------- claims ----
\* no strong Address is left and the public mailbox is empty
Abandoned == tx_count = 0 /\ addr_q = << >>

\* C1: once every strong Address has been dropped while the actor is idle
\* (public mailbox empty, no handler running) and stop() has not been called,
\* the task leaves the loop, on_stopped runs exactly once and the state
\* becomes Stopped; the Context's weak address and held private addresses do
\* not prevent it.
C1_IdleAbandonedStops ==
    /\ [](n_stopped <= 1)
    /\ (Abandoned /\ pc \in { "on_start", "set_started", "select" } /\ state # "Stopping")
         ~> (pc = "done" /\ state = "Stopped" /\ n_stopped = 1)

C1_Witness ==
    /\ pc = "done"
    /\ state = "Stopped"
    /\ exit_cause = "closed"
    /\ n_stopped = 1
    /\ log = << >>

\* request r was dequeued by the loop
InLog(r) == \E i \in 1 .. Len(log) : log[i] = r

\* C2: requests sent one after another, each awaited before the next is
\* issued, are handled in the order of the sends and each returns the value
\* its handler computed on the state left by the earlier ones: the r-th
\* request of such a chain, handled right after the others, returns r
\* (1, 2, 3 for three sends).
C2_SequentialSends ==
    \A r \in ReqIds :
        (seq[r] /\ outcome[r].st = "Ok")
            => /\ Len(log) >= r
               /\ \A i \in 1 .. (r - 1) : log[i] = i
               /\ \E i \in r .. Len(log) : log[i] = r
               /\ log[r] = r => outcome[r].val = r

C2_Witness ==
    /\ MaxReq >= 3
    /\ \A r \in 1 .. 3 : seq[r] /\ outcome[r] = Ok(r) /\ via[r] = "public"
    /\ log = << 1, 2, 3 >>
    /\ has[2]

\* the send of request r has returned to its caller
Returned(r) == outcome[r].st \notin { "pending", "cancelled" }

\* C3: a send that returned gave exactly one of: the handler's result for
\* that request, FailedToDeliver, FailedToGetResponse.  FailedToDeliver goes
\* with a request that was never enqueued (the receiver was gone, no handler
\* ran); FailedToGetResponse with a request that was enqueued and whose slot
\* was dropped unfilled; a response slot is written at most once.
C3_SendOutcomes ==
    \A r \in ReqIds :
        /\ writes[r] <= 1
        /\ Returned(r) => outcome[r].st \in { "Ok", "FailedToDeliver", "FailedToGetResponse" }
        /\ outcome[r].st = "Ok"
             => /\ via[r] # "none"
                /\ InLog(r)
                /\ writes[r] = 1
                /\ slot[r] = SlotFilled(outcome[r].val)
        /\ outcome[r].st = "FailedToDeliver"
             => /\ via[r] = "none"
                /\ ~ InLog(r)
                /\ writes[r] = 0
                /\ ~ ReceiverAlive
        /\ outcome[r].st = "FailedToGetResponse"
             => /\ via[r] # "none"
                /\ writes[r] = 0
                /\ slot[r] = SlotDropped
        /\ (Returned(r) /\ via[r] = "none") => outcome[r] = FailedToDeliver
        /\ (Returned(r) /\ via[r] # "none" /\ writes[r] = 0) => outcome[r] = FailedToGetResponse

C3_Witness ==
    /\ \E r \in ReqIds : outcome[r].st = "Ok"
    /\ \E r \in ReqIds : outcome[r] = FailedToDeliver
    /\ \E r \in ReqIds : outcome[r] = FailedToGetResponse

\* what holds of the mailboxes, the slots and the callers once the task ended
C4_AtTaskEnd ==
    pc = "done" =>
        /\ addr_q = << >>
        /\ private_q = << >>
        /\ \A c \in Callers :
             cpc[c] = "await" => slot[creq[c]].st \in { "filled", "dropped" }
        /\ \A r \in ReqIds :
             /\ (via[r] # "none" /\ ~ InLog(r))
                  => /\ slot[r] = SlotDropped
                     /\ outcome[r].st \in { "pending", "cancelled", "FailedToGetResponse" }
             /\ via[r] = "none"
                  => outcome[r].st \in { "pending", "cancelled", "FailedToDeliver" }

\* C4: when the hosting task has ended no caller of send stays suspended:
\* every request still waiting in a mailbox was dropped and its caller gets
\* FailedToGetResponse, every caller suspended on the full public mailbox
\* gets FailedToDeliver, later sends enqueue nothing and get FailedToDeliver,
\* and every caller's send returns.
C4_NoCallerLeftSuspended ==
    /\ [] C4_AtTaskEnd
    /\ (pc = "done") ~> (\A c \in Callers : cpc[c] = "idle")

C4_Witness ==
    /\ pc = "done"
    /\ \E c \in Clients : cpc[c] = "blocked"
    /\ cpc[PrivateHolder] = "await"
    /\ ~ InLog(creq[PrivateHolder])

\* C5: the lifecycle state only moves forward along Starting, Started,
\* Stopping, Stopped: no step assigns an earlier state.
C5_StateMonotonic == [][Rank(state') >= Rank(state)]_vars

\* C6: when the loop picks its next envelope while both mailboxes hold one,
\* it takes the envelope of the private mailbox.
C6_PrivateFirst ==
    [][(pc = "select" /\ private_q # << >> /\ addr_q # << >>)
          => addr_q' # Tail(addr_q)]_vars

\* the loop takes an envelope out of a mailbox
DequeueStep ==
    /\ pc = "select"
    /\ \/ Len(addr_q') < Len(addr_q)
       \/ Len(private_q') < Len(private_q)

C8_AbandonedStops == Abandoned ~> (pc = "done" /\ state = "Stopped")

C8_Witness ==
    /\ pc = "on_stopped"
    /\ exit_cause = "closed"
    /\ state = "Stopping"
    /\ private_q # << >>

\* C9: the loop is not left through public-mailbox closure while a strong
\* Address exists or the public mailbox holds an envelope: after such an exit
\* every request enqueued on the public mailbox has been dequeued.
C9_AbandonmentDropsNothing ==
    exit_cause = "closed" =>
        /\ tx_count = 0
        /\ addr_q = << >>
        /\ \A r \in ReqIds : via[r] = "public" => InLog(r)

C9_Witness ==
    /\ exit_cause = "closed"
    /\ \E r \in ReqIds : via[r] = "public" /\ InLog(r) /\ outcome[r].st = "Ok"

\* the callers holding a strong Address
StrongHolders == { c \in Clients : has[c] }

\* C10: upgrade() yields a strong Address exactly while one exists;
\* downgrade() changes neither the strong count nor the mailbox; once the
\* last strong Address is gone the strong count stays zero.
C10_UpgradeNeedsStrong ==
    [][/\ tx_count = Cardinality(StrongHolders)
       /\ tx_count = 0 => tx_count' = 0
       /\ (\E c \in Clients : ~ has[c] /\ has'[c]) => StrongHolders # { }
       /\ (~ upgrade_none /\ upgrade_none') => StrongHolders = { }
       /\ (~ weak /\ weak') => (tx_count' = tx_count /\ addr_q' = addr_q /\ has' = has)]_vars

C10_Witness ==
    /\ upgrade_none
    /\ tx_count = 0
    /\ ReceiverAlive

\* how many times request r was dispatched
Handled(r) == Cardinality({ i \in 1 .. Len(log) : log[i] = r })

\* C11: one invocation at a time: an envelope is in hand only while its handler
\* runs, and a request dispatched earlier is no longer open when the next one
\* is dispatched.  With callers sending concurrently through clones, no
\* request is dispatched twice; a dispatched request whose caller did not
\* cancel ran to completion (its slot is filled, never dropped); a send that
\* returned while the actor runs returned Ok, after exactly one handler run
\* and one write.
C11_OneAtATime ==
    /\ (cur # NoEnvelope) <=> (pc = "handler")
    /\ \A r \in ReqIds :
         /\ Handled(r) <= 1
         /\ outcome[r].st = "Ok" => (Handled(r) = 1 /\ writes[r] = 1)
         /\ (Returned(r) /\ ReceiverAlive) => outcome[r].st = "Ok"
    /\ \A i \in 1 .. Len(log) :
         /\ slot[log[i]].st = "open"
              => (i = Len(log) /\ pc = "handler" /\ cur = Request(log[i]))
         /\ slot[log[i]].st = "dropped" => rx_closed[log[i]]

C11_Witness ==
    /\ tx_count = 2
    /\ outcome[1].st = "Ok"
    /\ outcome[2].st = "Ok"
    /\ via[1] = "public"
    /\ via[2] = "public"
    /\ ~ seq[2]
    /\ ReceiverAlive

\* the requests waiting in a mailbox, in mailbox order
IdsOf(q) == [ i \in 1 .. Len(SelectSeq(q, LAMBDA e : e.kind = "req")) |->
                SelectSeq(q, LAMBDA e : e.kind = "req")[i].id ]

\* C12: each mailbox is first-in-first-out.  A request is enqueued by the step
\* that numbers it, so on one mailbox a smaller id was enqueued earlier: of two
\* requests dispatched from the same mailbox the one enqueued first was
\* dispatched first, the requests waiting in a mailbox wait in the order of
\* their enqueue, and each of them was enqueued after every request already
\* dispatched from that mailbox.
C12_QueueFifo ==
    /\ \A i, j \in 1 .. Len(log) :
         (i < j /\ via[log[i]] = via[log[j]]) => log[i] < log[j]
    /\ \A i, j \in 1 .. Len(IdsOf(addr_q)) :
         i < j => IdsOf(addr_q)[i] < IdsOf(addr_q)[j]
    /\ \A i \in 1 .. Len(log), j \in 1 .. Len(IdsOf(addr_q)) :
         via[log[i]] = "public" => log[i] < IdsOf(addr_q)[j]
    /\ \A i \in 1 .. Len(log), j \in 1 .. Len(IdsOf(private_q)) :
         via[log[i]] = "private" => log[i] < IdsOf(private_q)[j]

C12_Witness ==
    /\ Len(log) = 3
    /\ via[log[1]] = "public"
    /\ via[log[2]] = "private"
    /\ via[log[3]] = "public"
    /\ log[2] > log[3]
    /\ ~ seq[log[3]]

\* C13: when the handling of a request ends and the caller has dropped its
\* interest, no response is written (the slot is dropped, the write count
\* stays), what the handler did to the actor before it was suspended stays
\* and the task goes back to the head of the loop; a response is written
\* exactly when the handling ends with the caller still waiting, and then it
\* is the handler's result.  A request whose caller is gone before the first
\* poll is dropped without touching the actor.  The caller's drop itself
\* changes nothing on the actor's side.
C13_CancelAbandons ==
    [][/\ (pc = "handler" /\ cur.kind = "req" /\ pc' # "handler")
            => /\ pc' = LoopHead(state')
               /\ counter' = counter
               /\ cur' = NoEnvelope
               /\ ~ rx_closed[cur.id]
                    => /\ slot'[cur.id] = SlotFilled(counter)
                       /\ writes'[cur.id] = writes[cur.id] + 1
               /\ rx_closed[cur.id]
                    => /\ slot'[cur.id] = SlotDropped
                       /\ writes' = writes
       /\ (DequeueStep /\ pc' # "handler")
            => /\ counter' = counter
               /\ writes' = writes
               /\ pc' = LoopHead(state')
       /\ (rx_closed' # rx_closed)
            => /\ UNCHANGED << actor_vars, queue_vars >>
               /\ slot' = slot]_vars

C13_Witness ==
    /\ log = << 1, 2 >>
    /\ outcome[1] = Cancelled
    /\ slot[1] = SlotDropped
    /\ writes[1] = 0
    /\ counter = 2
    /\ outcome[2] = Ok(2)

\* the holders that have a PoolAddress
LiveGuards == { h \in Holders : guard[h] # 0 }

\* how many times instance i occurs in the buffer and among the guards
Copies(i) ==
    Cardinality({ k \in 1 .. Len(actors_q) : actors_q[k] = i })
        + Cardinality({ h \in Holders : guard[h] = i })

\* holder h drops its PoolAddress in this step
Releases(h) == guard[h] # 0 /\ guard'[h] = 0

\* holder h receives a PoolAddress in this step
Takes(h) == guard[h] = 0 /\ guard'[h] # 0

\* C14 as stated: every release of a guard, whenever it happens, puts the
\* guard's address at the end of the buffer.
C14_EveryReleaseReturns ==
    [][\A h \in Holders : Releases(h) => actors_q' = Append(actors_q, guard[h])]_vars

\* C14 as amended: while the Pool exists, the buffer and the live guards
\* together hold each of the PoolSize instances exactly once; take() moves one
\* address from the buffer to a guard and a release moves it back, once.  A
\* guard released after the Pool was dropped is not put back: its address is
\* discarded.  No instance is ever held twice.
C14_PoolConservedWhileAlive ==
    /\ [](pool_alive => (/\ Len(actors_q) + Cardinality(LiveGuards) = PoolSize
                          /\ \A i \in Instances : Copies(i) = 1))
    /\ [](\A i \in Instances : Copies(i) <= 1)
    /\ [][\A h \in Holders :
             /\ Takes(h) => (guard'[h] \in Instances /\ Len(actors_q') = Len(actors_q) - 1)
             /\ (Releases(h) /\ pool_alive) => actors_q' = Append(actors_q, guard[h])
             /\ (Releases(h) /\ ~ pool_alive) => actors_q' = << >>]_vars

C14_Witness ==
    /\ pool_alive
    /\ last_release # 0
    /\ Cardinality(LiveGuards) = PoolSize - 1
    /\ actors_q = << last_release >>

\* C15: take() returns the address at the head of the buffer and a released
\* address joins the tail: the guards in hand are of distinct instances, the
\* address released last is the last of the buffer, and a take() with every
\* other instance checked out returns the address released last.
C15_Rotation ==
    /\ [](\A h1, h2 \in LiveGuards : guard[h1] = guard[h2] => h1 = h2)
    /\ []((pool_alive /\ actors_q # << >> /\ last_release # 0)
            => actors_q[Len(actors_q)] = last_release)
    /\ [][\A h \in Holders :
             Takes(h) => /\ guard'[h] = Head(actors_q)
                         /\ actors_q' = Tail(actors_q)
                         /\ (Cardinality(LiveGuards) = PoolSize - 1 /\ last_release # 0)
                              => guard'[h] = last_release]_vars

C15_Witness ==
    /\ Cardinality(LiveGuards) = PoolSize
    /\ last_release # 0
    /\ \E h \in Holders : guard[h] = last_release
    /\ ~ taking

\* the requests sent by the repeating task whose send has not returned
InFlight == { r \in ReqIds : via[r] = "private" /\ outcome[r].st = "pending" }

\* the requests sent by the repeating task whose send returned an error
Failed == { r \in ReqIds : via[r] = "private"
                            /\ outcome[r].st \in { "FailedToDeliver", "FailedToGetResponse" } }

\* C16: the repeating task ends at the first send that returns an error and
\* only then; once the hosting task has ended nothing more is enqueued on the
\* private mailbox and the repeating task terminates; the repeating task has
\* at most one send in flight and enqueues only when the previous send has
\* returned.
C16_IntervalEnds ==
    /\ [](Cardinality(InFlight) <= 1)
    /\ [](Failed # { } => cpc[PrivateHolder] = "ended")
    /\ [](Cardinality(Failed) <= 1)
    /\ [](cpc[PrivateHolder] = "ended" => ~ ReceiverAlive)
    /\ [][/\ cpc[PrivateHolder] = "ended"
               => (cpc'[PrivateHolder] = "ended" /\ Len(private_q') <= Len(private_q))
          /\ ~ ReceiverAlive => private_q' = private_q
          /\ Len(private_q') > Len(private_q)
               => (cpc[PrivateHolder] = "idle" /\ InFlight = { })]_vars
    /\ (pc = "done") ~> (cpc[PrivateHolder] = "ended")

C16_Witness ==
    /\ cpc[PrivateHolder] = "ended"
    /\ pc = "done"
    /\ outcome[1] = Ok(1)
    /\ via[1] = "private"
    /\ outcome[2] = FailedToGetResponse
    /\ via[2] = "private"

\* C17: notify is one step of its caller and suspends nobody.  A notification
\* is appended to the private mailbox only while the hosting task is alive,
\* behind whatever waits there, and notify then returns Ok; notify returns
\* FailedToDeliver only when the hosting task has ended, and then nothing is
\* enqueued; the call changes nothing else.
C17_NotifyNeverWaits ==
    /\ [](notified = "FailedToDeliver" => ~ ReceiverAlive)
    /\ [][/\ private_q' = Append(private_q, Tick)
               => (ReceiverAlive /\ notified' = "Ok")
          /\ (notified' = "Ok" /\ notified # "Ok")
               => (ReceiverAlive /\ private_q' = Append(private_q, Tick))
          /\ (notified' = "FailedToDeliver" /\ notified # "FailedToDeliver")
               => (~ ReceiverAlive /\ private_q' = private_q)
          /\ notified' # notified
               => UNCHANGED << actor_vars, addr_q, via, log, addr_vars, call_vars, slot_vars >>]_vars

C17_Witness ==
    /\ notified = "Ok"
    /\ Len(private_q) >= 2
    /\ private_q[Len(private_q)] = Tick
    /\ private_q[1].kind = "req"

\* C18: the public mailbox never holds more than PublicCapacity envelopes.  A
\* send issued on the full mailbox suspends its caller and enqueues nothing;
\* the suspended caller's envelope is enqueued only once the mailbox has room
\* again, or the send fails with FailedToDeliver once the hosting task has
\* ended (or its future is dropped).  A send on the private mailbox enqueues
\* at once, whatever the length of the public mailbox.
C18_PublicBounded ==
    /\ [](Len(addr_q) <= PublicCapacity)
    /\ [][/\ \A c \in Clients :
               /\ (cpc[c] = "idle" /\ cpc'[c] = "blocked")
                    => (Len(addr_q) = PublicCapacity /\ addr_q' = addr_q /\ ReceiverAlive)
               /\ (cpc[c] = "idle" /\ cpc'[c] = "await")
                    => (Len(addr_q) < PublicCapacity
                        /\ addr_q' = Append(addr_q, Request(creq'[c])))
               /\ (cpc[c] = "blocked" /\ cpc'[c] = "await")
                    => (Len(addr_q) < PublicCapacity
                        /\ addr_q' = Append(addr_q, Request(creq[c])))
               /\ (cpc[c] = "blocked" /\ cpc'[c] = "idle")
                    => \/ (~ ReceiverAlive /\ outcome'[creq[c]] = FailedToDeliver)
                       \/ outcome'[creq[c]] = Cancelled
          /\ (cpc[PrivateHolder] = "idle" /\ cpc'[PrivateHolder] # "idle")
               => (cpc'[PrivateHolder] = "await"
                   /\ private_q' = Append(private_q, Request(creq'[PrivateHolder])))
          /\ Len(addr_q') > Len(addr_q) => Len(addr_q) < PublicCapacity]_vars

C18_Witness ==
    /\ ReceiverAlive
    /\ Len(addr_q) = PublicCapacity
    /\ addr_q[PublicCapacity].kind = "req"
    /\ \E c \in Clients : cpc[c] = "blocked"
    /\ private_q # << >>

\* C19: a Context::stop call sets the state to Stopping and changes nothing
\* else; made with the state already Stopping it changes nothing at all.  So
\* after one call or several within the same hook or handler the state is the
\* same, Stopping, and so is everything the rest of the run depends on.
C19_StopIdempotent ==
    /\ [](stops >= 1 => state = "Stopping")
    /\ [][stops' > stops
             => /\ state' = "Stopping"
                /\ state = "Stopping" => state' = state
                /\ UNCHANGED << pc, counter, cur, exit_cause, n_stopped >>
                /\ UNCHANGED << queue_vars, addr_vars, call_vars, slot_vars, aside_vars >>]_vars

C19_Witness ==
    /\ stops = 2
    /\ pc = "handler"
    /\ state = "Stopping"
    /\ cur.kind = "req"

\* C20: the two probes read the mailbox and change nothing; they always give
\* opposite answers; is_closed() is true exactly once the hosting task has
\* ended (the state is Stopped), whether the loop was left by consent with
\* strong addresses still held or by abandonment, and false in every state
\* before that.
C20_ClosedIffTaskEnded ==
    /\ is_closed \in BOOLEAN
    /\ is_connected = ~ is_closed
    /\ is_closed <=> (pc = "done" /\ state = "Stopped")
    /\ state \in { "Starting", "Started", "Stopping" } => is_connected

C20_Witness ==
    /\ is_closed
    /\ exit_cause = "consent"
    /\ \E c \in Clients : has[c]
    /\ addr_q = << >>
    /\ \E r \in ReqIds : outcome[r] = FailedToGetResponse /\ via[r] = "public"

\* the positions of the hosting task from the call of on_stopped on
AfterLoop == { "on_stopped", "set_stopped", "done" }

\* C21: on_start is never entered again, and until it has returned and the
\* state is Started nothing is dispatched: what is sent meanwhile waits in
\* its mailbox.  on_stopped is entered only from the loop, after a consented
\* stop or a closure, and is run once: never twice, and always before the
\* task ends.  From the call of on_stopped on the task never goes back: no
\* envelope is dequeued or handled, on_stopping is not asked, the actor's
\* value and the dispatch log stay as they are.
C21_HookOrder ==
    /\ [](pc \in { "on_start", "set_started" }
            => (log = << >> /\ cur = NoEnvelope /\ counter = 0 /\ n_stopped = 0))
    /\ [](n_stopped <= 1)
    /\ [](pc = "on_stopped" => (n_stopped = 0 /\ exit_cause \in { "consent", "closed" }))
    /\ [](pc \in { "set_stopped", "done" } => n_stopped = 1)
    /\ [](pc \notin AfterLoop => (n_stopped = 0 /\ exit_cause = "none"))
    /\ [][/\ pc' = "on_start" => pc = "on_start"
          /\ pc \in { "on_start", "set_started" }
               => (Len(addr_q') >= Len(addr_q) /\ Len(private_q') >= Len(private_q))
          /\ (pc # "on_stopped" /\ pc' = "on_stopped") => pc \in { "loop", "select" }
          /\ pc \in AfterLoop
               => /\ pc' \in AfterLoop
                  /\ log' = log
                  /\ cur' = NoEnvelope
                  /\ counter' = counter
                  /\ writes' = writes
                  /\ exit_cause' = exit_cause]_vars

C21_Witness ==
    /\ pc = "done"
    /\ n_stopped = 1
    /\ exit_cause = "consent"
    /\ log = << 2 >>
    /\ via[1] = "public"
    /\ via[2] = "private"
    /\ outcome[1] = FailedToGetResponse

\* C22: the state becomes Stopping only by a stop() call of a running hook or
\* handler, and on_stopping is asked only with the state Stopping.  When a
\* handler that called stop() ends, on_stopping is asked next: with the state
\* Stopping an envelope is dequeued only after on_stopping returned false.
\* When on_stopping returns true the loop is left in that step, whatever is
\* queued and whoever holds an address.  The loop is left in two ways only:
\* on_stopping returned true with the state Stopping, or addr_rx.recv()
\* reported the closure of the public mailbox.
C22_StopProtocol ==
    /\ [](pc = "loop" => state = "Stopping")
    /\ [][/\ (state # "Stopping" /\ state' = "Stopping")
               => pc \in { "on_start", "handler", "on_stopped" }
          /\ (pc = "handler" /\ pc' # "handler" /\ state' = "Stopping") => pc' = "loop"
          /\ (pc' = "select" /\ state' = "Stopping") => pc \in { "loop", "select" }
          /\ (DequeueStep /\ state = "Stopping" /\ pc' # "handler") => pc' = "loop"
          /\ (pc = "loop" /\ pc' # "loop")
               => /\ pc' \in { "select", "on_stopped" }
                  /\ UNCHANGED << addr_q, private_q, log, counter, tx_count >>
          /\ (pc \notin AfterLoop /\ pc' \in AfterLoop)
               => /\ pc' = "on_stopped"
                  /\ \/ (pc = "loop" /\ state = "Stopping" /\ exit_cause' = "consent")
                     \/ (pc = "select" /\ tx_count = 0 /\ addr_q = << >>
                         /\ exit_cause' = "closed")]_vars

C22_Witness ==
    /\ pc = "on_stopped"
    /\ exit_cause = "consent"
    /\ state = "Stopping"
    /\ addr_q # << >>
    /\ private_q # << >>
    /\ tx_count > 0
    /\ log # << >>

====
